---- MODULE Spec2Model ----
(***************************************************************************)
(* Model of fortuna_archetype_client: ArchetypeClient (client.py) and its  *)
(* exception types (exceptions.py).                                        *)
(*                                                                         *)
(* Strings are sequences of one-character strings, so that upper(), join,  *)
(* str(int) and json.dumps are computed character by character.  A Python  *)
(* Optional is a tuple: None is <<>> and a present value x is <<x>>, so    *)
(* that None and the empty string "" stay distinct.                        *)
(***************************************************************************)
EXTENDS Integers, Sequences, FiniteSets, TLC

VARIABLES
    client,     \* the ArchetypeClient instance shared by all callers
    now,        \* int(time.time())
    pc,         \* per caller: position inside _make_request
    args,       \* per caller: the arguments of the running call
    body_str,   \* per caller: local body_str of _make_request
    headers,    \* per caller: local headers of _make_request
    wire,       \* per caller: the HTTP request handed to requests.request
    attempts,   \* per caller: HTTP requests sent during the running call
    resp,       \* per caller: what requests.request produced
    outcome,    \* per caller: what _make_request returned or raised
    signer      \* two independent uses of _generate_signature

vars == <<client, now, pc, args, body_str, headers, wire, attempts, resp,
          outcome, signer>>

\* ------------------------------------------------------------------ bounds
ClockStart == 9

ClockEnd == 10

\* ------------------------------------------------------- Python primitives
None == <<>>

Some(x) == <<x>>

Null == <<>>

Range(s) == {s[i] : i \in DOMAIN s}

DigitChars == <<"0", "1", "2", "3", "4", "5", "6", "7", "8", "9">>

RECURSIVE StrInt(_)
StrInt(n) ==
    IF n < 10 THEN <<DigitChars[n + 1]>>
    ELSE StrInt(n \div 10) \o <<DigitChars[(n % 10) + 1]>>

UpperMap ==
    ("g" :> "G") @@ ("e" :> "E") @@ ("t" :> "T") @@
    ("p" :> "P") @@ ("o" :> "O") @@ ("s" :> "S")

UpperChar(ch) == IF ch \in DOMAIN UpperMap THEN UpperMap[ch] ELSE ch

Upper(s) == [i \in DOMAIN s |-> UpperChar(s[i])]

RECURSIVE Join(_, _)
Join(sep, parts) ==
    IF parts = <<>> THEN <<>>
    ELSE IF Len(parts) = 1 THEN parts[1]
    ELSE parts[1] \o sep \o Join(sep, Tail(parts))

RECURSIVE RStrip(_, _)
RStrip(s, ch) ==
    IF s # <<>> /\ s[Len(s)] = ch THEN RStrip(SubSeq(s, 1, Len(s) - 1), ch)
    ELSE s

\* Truthiness of an Optional[str] or Optional[Dict] argument.
StrTruthy(o) == o # None /\ o[1] # <<>>

\* ------------------------------------------------------------ JSON values
\* A JSON value is a record [t, n, items]: an integer n, an object whose
\* items are <<key, value>> pairs in insertion order, or a Python set, which
\* json.dumps cannot serialize.
JInt(n) == [t |-> "int", n |-> n, items |-> <<>>]

JObj(items) == [t |-> "obj", n |-> 0, items |-> items]

JSet == [t |-> "set", n |-> 0, items |-> <<>>]

KeyOrder == <<"a", "b">>

KeyRank(k) == CHOOSE i \in DOMAIN KeyOrder : KeyOrder[i] = k

SortItems(items) ==
    [i \in DOMAIN items |->
        CHOOSE it \in Range(items) :
            Cardinality({o \in Range(items) : KeyRank(o[1]) < KeyRank(it[1])}) = i - 1]

RECURSIVE Serializable(_)
Serializable(v) ==
    CASE v.t = "int" -> TRUE
      [] v.t = "set" -> FALSE
      [] v.t = "obj" -> \A i \in DOMAIN v.items : Serializable(v.items[i][2])

DictTruthy(o) == o # None /\ o[1].items # <<>>

RECURSIVE Dumps(_, _)
Dumps(v, sort_keys) ==
    IF v.t = "int" THEN StrInt(v.n)
    ELSE LET its == IF sort_keys THEN SortItems(v.items) ELSE v.items
             enc == [i \in DOMAIN its |->
                        <<"\"", its[i][1], "\"", ":", " ">>
                            \o Dumps(its[i][2], sort_keys)]
         IN  <<"{">> \o Join(<<",", " ">>, enc) \o <<"}">>

\* ------------------------------------------------------------- exceptions
\* An exception (or a normal return) is a record [kind, message,
\* status_code, error_code, value]; only kind is meaningful for the
\* built-in exceptions, which carry no status.
ArchetypeAPIError(message, status_code, error_code) ==
    [kind |-> "ArchetypeAPIError", message |-> message,
     status_code |-> status_code, error_code |-> error_code, value |-> Null]

AuthenticationError(message) ==
    [ArchetypeAPIError(message, 401, None) EXCEPT !.kind = "AuthenticationError"]

Builtin(kind) ==
    [kind |-> kind, message |-> <<>>, status_code |-> 0 - 1,
     error_code |-> None, value |-> Null]

Return(value) ==
    [kind |-> "return", message |-> <<>>, status_code |-> 0 - 1,
     error_code |-> None, value |-> value]

\* class AuthenticationError(ArchetypeAPIError)
IsArchetypeAPIError(e) == e.kind \in {"ArchetypeAPIError", "AuthenticationError"}

\* ----------------------------------------------------------------- Signer
\* hmac.new(key, msg, sha256).hexdigest(), taken as injective on (key, msg).
Hmac(key, msg) == [key |-> key, msg |-> msg]

\* A signer that leaves the timestamp out of the message.
MessagePartsNoTimestamp(method, path, timestamp, body) ==
    <<Upper(method), path>> \o
        (IF StrTruthy(body) THEN <<body[1]>> ELSE <<>>)

MessageParts(method, path, timestamp, body) ==
    <<Upper(method), path, timestamp>> \o
        (IF StrTruthy(body) THEN <<body[1]>> ELSE <<>>)

GenerateSignature(self, method, path, timestamp, body) ==
    Hmac(self.api_secret, Join(<<"|">>, MessageParts(method, path, timestamp, body)))

GetHeaders(self, method, path, body, t) ==
    LET timestamp == StrInt(t)
        signature == GenerateSignature(self, method, path, timestamp, body)
    IN  [api_key |-> self.api_key, timestamp |-> timestamp,
         signature |-> signature,
         content_type |-> <<"application/json">>,
         accept |-> <<"application/json">>]

\* -------------------------------------------------------------- Transport
\* A body preparation that forgets sort_keys=True.
PrepareBodyUnsorted(json_data) ==
    IF DictTruthy(json_data) THEN Some(Dumps(json_data[1], FALSE)) ELSE None

\* body_str of _make_request: set only for a truthy json_data.
PrepareBody(json_data) ==
    IF DictTruthy(json_data) THEN Some(Dumps(json_data[1], TRUE)) ELSE None

\* What requests.request(json=json_data) puts on the wire: its own
\* json.dumps of the mapping, in insertion order, whenever json is not None.
RequestsBody(json_data) ==
    IF json_data = None THEN None ELSE Some(Dumps(json_data[1], FALSE))

PreparedRequest(self, a, hdrs) ==
    [method |-> a.method, url |-> self.base_url \o a.path, headers |-> hdrs,
     params |-> a.params, body |-> RequestsBody(a.json_data),
     timeout |-> self.timeout]

\* response.json() fails on an empty or non-JSON body.  requests raises its
\* own JSONDecodeError (a RequestException) from 2.27 on and the json
\* module's ValueError before; r.decode says which this response raises.
JsonFails(content) == content.form \in {"empty", "text"}

JsonError(r) ==
    IF r.decode = "RequestException"
    THEN ArchetypeAPIError(<<"Request failed: ", "Expecting value">>, 0, None)
    ELSE Builtin("ValueError")

ErrorBranch(r) ==
    IF r.content.form = "empty"
    THEN ArchetypeAPIError(<<"API error: ">> \o StrInt(r.status_code),
                           r.status_code, None)
    ELSE IF JsonFails(r.content) THEN JsonError(r)
    ELSE IF r.content.form = "array" THEN Builtin("AttributeError")
    ELSE ArchetypeAPIError(
            IF r.content.errmsg # None THEN r.content.errmsg[1]
            ELSE <<"API error: ">> \o StrInt(r.status_code),
            r.status_code,
            r.content.errorcode)

\* A handler that tests status >= 400 before it tests 401.
HandleResponseErrorFirst(r) ==
    IF r.kind = "raise"
    THEN ArchetypeAPIError(<<"Request failed: ">> \o r.desc, 0, None)
    ELSE IF r.status_code >= 400 THEN ErrorBranch(r)
    ELSE IF r.status_code = 401
    THEN AuthenticationError(<<"Authentication failed: Invalid API key or signature">>)
    ELSE IF JsonFails(r.content) THEN JsonError(r)
    ELSE Return(r.content)

\* A handler without the except clause: the RequestException escapes.
HandleResponseUncaught(r) ==
    IF r.kind = "raise" THEN Builtin(r.exc)
    ELSE IF r.status_code = 401
    THEN AuthenticationError(<<"Authentication failed: Invalid API key or signature">>)
    ELSE IF r.status_code >= 400 THEN ErrorBranch(r)
    ELSE IF JsonFails(r.content) THEN JsonError(r)
    ELSE Return(r.content)

\* try block and except clause of _make_request, applied to what
\* requests.request produced.
HandleResponse(r) ==
    IF r.kind = "raise"
    THEN ArchetypeAPIError(<<"Request failed: ">> \o r.desc, 0, None)
    ELSE IF r.status_code = 401
    THEN AuthenticationError(<<"Authentication failed: Invalid API key or signature">>)
    ELSE IF r.status_code >= 400 THEN ErrorBranch(r)
    ELSE IF JsonFails(r.content) THEN JsonError(r)
    ELSE Return(r.content)

\* ----------------------------------------------------------------- inputs
DefaultTimeout == 30

NewClient(base_url, api_key, api_secret, timeout) ==
    [base_url |-> RStrip(base_url, "/"), api_key |-> api_key,
     api_secret |-> api_secret, timeout |-> timeout]

Secrets == {<<"k", "1">>, <<"k", "2">>}

TheClient ==
    NewClient(<<"h", ":", "3", "/">>, <<"i", "d">>, <<"k", "1">>, DefaultTimeout)

Callers == {"c1", "c2"}

Methods == {<<"g", "e", "t">>, <<"P", "O", "S", "T">>}

SignMethods == Methods \cup {<<"G", "E", "T">>}

Paths == {<<"/", "a">>, <<"/", "b">>}

Params == {None, Some(<<<<"q", "1">>>>)}

AB == <<<<"a", JInt(1)>>, <<"b", JInt(2)>>>>

BA == <<<<"b", JInt(2)>>, <<"a", JInt(1)>>>>

JsonInputs ==
    {None, Some(JObj(<<>>)), Some(JObj(AB)), Some(JObj(BA)),
     Some(JObj(<<<<"a", JObj(AB)>>>>)), Some(JObj(<<<<"a", JObj(BA)>>>>)),
     Some(JObj(<<<<"a", JSet>>>>))}

SignBodies ==
    {None, Some(<<>>), Some(<<"{", "}">>), Some(Dumps(JObj(AB), TRUE))}

Statuses == {200, 401, 404, 500}

Content(form, errmsg, errorcode) ==
    [form |-> form, errmsg |-> errmsg, errorcode |-> errorcode]

Contents ==
    {Content(f, None, None) : f \in {"empty", "text", "array"}} \cup
    {Content("object", m, e) : m \in {None, Some(<<"not found">>)},
                               e \in {None, Some(42)}}

TransportFailures ==
    {<<"ConnectionError", "Name or service not known">>,
     <<"ConnectionError", "Connection refused">>,
     <<"Timeout", "Read timed out">>,
     <<"ChunkedEncodingError", "Connection broken">>}

\* What requests.request does: it returns a response, or raises one of the
\* subclasses of requests.exceptions.RequestException.
DecodeErrors(ct) ==
    IF JsonFails(ct) THEN {"RequestException", "ValueError"} ELSE {"none"}

Responses ==
    {[kind |-> "http", exc |-> "", desc |-> <<>>, status_code |-> st,
      content |-> ct, decode |-> d]
        : <<st, ct, d>> \in {x \in Statuses \X Contents \X
                                {"RequestException", "ValueError", "none"}
                                : x[3] \in DecodeErrors(x[2])}} \cup
    {[kind |-> "raise", exc |-> f[1], desc |-> <<f[2]>>, status_code |-> 0,
      content |-> Content("empty", None, None), decode |-> "none"]
        : f \in TransportFailures}

\* ----------------------------------------------------------- state machine
Idle == [c \in Callers |-> Null]

Init ==
    /\ client = TheClient
    /\ now = ClockStart
    /\ pc = [c \in Callers |-> "idle"]
    /\ args = Idle
    /\ body_str = Idle
    /\ headers = Idle
    /\ wire = Idle
    /\ attempts = [c \in Callers |-> 0]
    /\ resp = Idle
    /\ outcome = Idle
    /\ signer = Null

\* time.time() moves on between any two steps.
Tick ==
    /\ now < ClockEnd
    /\ now' = now + 1
    /\ UNCHANGED <<client, pc, args, body_str, headers, wire, attempts, resp,
                   outcome, signer>>

\* _make_request is entered and body_str is prepared (lines 135-141); a
\* json.dumps that cannot serialize raises TypeError out of the call.
Call(c) ==
    /\ pc[c] = "idle"
    /\ \E m \in Methods, p \in Paths, q \in Params, j \in JsonInputs :
        /\ args' = [args EXCEPT ![c] =
                        [method |-> m, path |-> p, params |-> q, json_data |-> j]]
        /\ IF DictTruthy(j) /\ ~Serializable(j[1])
           THEN /\ pc' = [pc EXCEPT ![c] = "done"]
                /\ outcome' = [outcome EXCEPT ![c] = Builtin("TypeError")]
                /\ UNCHANGED body_str
           ELSE /\ pc' = [pc EXCEPT ![c] = "prepared"]
                /\ body_str' = [body_str EXCEPT ![c] = PrepareBody(j)]
                /\ UNCHANGED outcome
    /\ attempts' = [attempts EXCEPT ![c] = 0]
    /\ UNCHANGED <<client, now, headers, wire, resp, signer>>

\* headers = self._get_headers(method, path, body_str)  (line 143)
Sign(c) ==
    /\ pc[c] = "prepared"
    /\ headers' = [headers EXCEPT ![c] =
            GetHeaders(client, args[c].method, args[c].path, body_str[c], now)]
    /\ pc' = [pc EXCEPT ![c] = "signed"]
    /\ UNCHANGED <<client, now, args, body_str, wire, attempts, resp, outcome,
                   signer>>

\* requests.request(...) puts the request on the wire  (lines 146-153)
Send(c) ==
    /\ pc[c] = "signed"
    /\ wire' = [wire EXCEPT ![c] = PreparedRequest(client, args[c], headers[c])]
    /\ attempts' = [attempts EXCEPT ![c] = @ + 1]
    /\ pc' = [pc EXCEPT ![c] = "sent"]
    /\ UNCHANGED <<client, now, args, body_str, headers, resp, outcome, signer>>

\* An except clause that sends the request again after a transport failure.
ReceiveRetry(c) ==
    /\ pc[c] = "sent"
    /\ \E r \in Responses :
        /\ resp' = [resp EXCEPT ![c] = r]
        /\ IF r.kind = "raise"
           THEN /\ pc' = [pc EXCEPT ![c] = "signed"]
                /\ UNCHANGED <<outcome, args, body_str, headers, wire>>
           ELSE /\ pc' = [pc EXCEPT ![c] = "done"]
                /\ outcome' = [outcome EXCEPT ![c] = HandleResponse(r)]
                /\ args' = [args EXCEPT ![c] = Null]
                /\ body_str' = [body_str EXCEPT ![c] = Null]
                /\ headers' = [headers EXCEPT ![c] = Null]
                /\ wire' = [wire EXCEPT ![c] = Null]
    /\ UNCHANGED <<client, now, attempts, signer>>

\* requests.request returns or raises and the rest of the try block and the
\* except clause run (lines 155-175); the call's locals are dead afterwards.
Receive(c) ==
    /\ pc[c] = "sent"
    /\ \E r \in Responses :
        /\ resp' = [resp EXCEPT ![c] = r]
        /\ outcome' = [outcome EXCEPT ![c] = HandleResponse(r)]
    /\ pc' = [pc EXCEPT ![c] = "done"]
    /\ args' = [args EXCEPT ![c] = Null]
    /\ body_str' = [body_str EXCEPT ![c] = Null]
    /\ headers' = [headers EXCEPT ![c] = Null]
    /\ wire' = [wire EXCEPT ![c] = Null]
    /\ UNCHANGED <<client, now, attempts, signer>>

\* The caller has the result or the exception; it may call again.
Finish(c) ==
    /\ pc[c] = "done"
    /\ pc' = [pc EXCEPT ![c] = "idle"]
    /\ args' = [args EXCEPT ![c] = Null]
    /\ resp' = [resp EXCEPT ![c] = Null]
    /\ outcome' = [outcome EXCEPT ![c] = Null]
    /\ attempts' = [attempts EXCEPT ![c] = 0]
    /\ UNCHANGED <<client, now, body_str, headers, wire, signer>>

Next ==
    \/ Tick
    \/ \E c \in Callers : Call(c)
    \/ \E c \in Callers : Sign(c)
    \/ \E c \in Callers : Send(c)
    \/ \E c \in Callers : Receive(c)
    \/ \E c \in Callers : Finish(c)

Spec == Init /\ [][Next]_vars

\* ------------------------------------------- the Signer used on its own
Signers == {"A", "B"}

InitSign ==
    /\ client = TheClient
    /\ now = ClockStart
    /\ pc = [c \in Callers |-> "idle"]
    /\ args = Idle
    /\ body_str = Idle
    /\ headers = Idle
    /\ wire = Idle
    /\ attempts = [c \in Callers |-> 0]
    /\ resp = Idle
    /\ outcome = Idle
    /\ signer \in [Signers ->
            {[self |-> NewClient(<<"h">>, <<"i", "d">>, k, DefaultTimeout),
              called |-> FALSE, method |-> <<>>, path |-> <<>>,
              timestamp |-> <<>>, body |-> None, signature |-> Hmac(<<>>, <<>>)]
             : k \in Secrets}]

\* One client computes _generate_signature(method, path, timestamp, body).
Generate(i) ==
    /\ \E m \in SignMethods, p \in Paths, t \in ClockStart .. ClockEnd,
          b \in SignBodies :
        signer' = [signer EXCEPT ![i] =
            [self |-> @.self, called |-> TRUE, method |-> m, path |-> p,
             timestamp |-> StrInt(t), body |-> b,
             signature |-> GenerateSignature(@.self, m, p, StrInt(t), b)]]
    /\ UNCHANGED <<client, now, pc, args, body_str, headers, wire, attempts,
                   resp, outcome>>

NextSign == \E i \in Signers : Generate(i)

SpecSign == InitSign /\ [][NextSign]_vars

\* ------------------------------------------------------------ properties
Signed(c) == pc[c] \in {"signed", "sent"}

Sent(c) == pc[c] = "sent"

\* The call has ended with the result of an HTTP attempt.
Answered(c) == pc[c] = "done" /\ attempts[c] = 1

HttpError(c) ==
    /\ Answered(c)
    /\ resp[c].kind = "http"
    /\ resp[c].status_code >= 400

\* The canonical encoding of a body that is present.
CanonicalBody(json_data) ==
    IF json_data = None THEN None ELSE Some(Dumps(json_data[1], TRUE))

CanonicalMessage(method, path, timestamp, json_data) ==
    Join(<<"|">>, <<Upper(method), path, timestamp>> \o CanonicalBody(json_data))

Keys(v) == {v.items[i][1] : i \in DOMAIN v.items}

ValueAt(v, k) == (CHOOSE it \in Range(v.items) : it[1] = k)[2]

\* Two JSON values with the same key/value pairs at every nesting level.
RECURSIVE SameValue(_, _)
SameValue(v, w) ==
    /\ v.t = w.t
    /\ v.t = "int" => v.n = w.n
    /\ v.t = "obj" =>
        /\ Keys(v) = Keys(w)
        /\ \A k \in Keys(v) : SameValue(ValueAt(v, k), ValueAt(w, k))

SameJson(j1, j2) ==
    /\ (j1 = None) = (j2 = None)
    /\ j1 # None => SameValue(j1[1], j2[1])

\* C1: whenever a jsonBody is present, the body string that is signed is the
\* body string that is transmitted.
C1_SignedBodyIsTransmitted ==
    \A c \in Callers :
        Sent(c) /\ args[c].json_data # None => wire[c].body = body_str[c]

\* C2: every response with a status >= 400 other than 401 ends the call with
\* an ApiError carrying that status, the body's errmsg (or "API error:
\* <status>") and the body's errorcode (or none), whatever the body is.
C2_HttpErrorIsApiError ==
    \A c \in Callers :
        HttpError(c) /\ resp[c].status_code # 401 =>
            /\ outcome[c].kind = "ArchetypeAPIError"
            /\ outcome[c].status_code = resp[c].status_code
            /\ outcome[c].message =
                  IF resp[c].content.errmsg # None
                  THEN resp[c].content.errmsg[1]
                  ELSE <<"API error: ">> \o StrInt(resp[c].status_code)
            /\ outcome[c].error_code = resp[c].content.errorcode

\* C3: a 401 response ends the call with AuthError, statusCode 401 and the
\* fixed message, whatever the body is.
C3_Status401IsAuthError ==
    \A c \in Callers :
        HttpError(c) /\ resp[c].status_code = 401 =>
            /\ outcome[c].kind = "AuthenticationError"
            /\ outcome[c].status_code = 401
            /\ outcome[c].message =
                  <<"Authentication failed: Invalid API key or signature">>

C3_Witness ==
    \E c \in Callers :
        /\ HttpError(c)
        /\ resp[c].status_code = 401
        /\ resp[c].content.errmsg # None
        /\ outcome[c].kind = "AuthenticationError"

\* C4: every failure of a call is an AuthError for a 401, an ApiError with
\* the status for another HTTP error, or an ApiError with statusCode 0 when
\* no HTTP status was obtained; nothing else reaches the caller.
C4_OnlyTaxonomyErrors ==
    \A c \in Callers :
        pc[c] = "done" /\ outcome[c].kind # "return" =>
            /\ IsArchetypeAPIError(outcome[c])
            /\ IF HttpError(c)
               THEN /\ outcome[c].status_code = resp[c].status_code
                    /\ outcome[c].kind = "AuthenticationError"
                          <=> resp[c].status_code = 401
               ELSE /\ outcome[c].kind = "ArchetypeAPIError"
                    /\ outcome[c].status_code = 0

\* C5: a transport failure of the HTTP attempt ends the call with an
\* ApiError of statusCode 0, without errorCode, whose message holds the
\* description of the failure.
C5_TransportFailureIsStatusZero ==
    \A c \in Callers :
        Answered(c) /\ resp[c].kind = "raise" =>
            /\ outcome[c].kind = "ArchetypeAPIError"
            /\ outcome[c].status_code = 0
            /\ outcome[c].error_code = None
            /\ Range(resp[c].desc) \subseteq Range(outcome[c].message)

C5_Witness ==
    \E c \in Callers :
        /\ Answered(c)
        /\ resp[c].kind = "raise"
        /\ resp[c].exc = "Timeout"
        /\ outcome[c].status_code = 0

\* C7: two signing computations with the same method, path, timestamp and
\* secret whose JSON bodies hold the same key/value pairs at every nesting
\* level, in whatever insertion order, get the same canonical body and the
\* same signature.
C7_OrderIndependentSignature ==
    \A c \in Callers, d \in Callers :
        /\ Signed(c) /\ Signed(d)
        /\ args[c].method = args[d].method
        /\ args[c].path = args[d].path
        /\ headers[c].timestamp = headers[d].timestamp
        /\ SameJson(args[c].json_data, args[d].json_data)
        => /\ body_str[c] = body_str[d]
           /\ headers[c].signature = headers[d].signature

C7_Witness ==
    \E c \in Callers, d \in Callers :
        /\ Signed(c) /\ Signed(d)
        /\ args[c].method = args[d].method
        /\ args[c].path = args[d].path
        /\ headers[c].timestamp = headers[d].timestamp
        /\ args[c].json_data = Some(JObj(<<<<"a", JObj(AB)>>>>))
        /\ args[d].json_data = Some(JObj(<<<<"a", JObj(BA)>>>>))
        /\ headers[c].signature = headers[d].signature

\* C8: the signed message is METHOD|PATH|TIMESTAMP when the call has no body
\* and METHOD|PATH|TIMESTAMP|CANONICAL_JSON_BODY when it has one, an empty
\* body included.
C8_CanonicalMessageFormat ==
    \A c \in Callers :
        Signed(c) =>
            headers[c].signature.msg =
                CanonicalMessage(args[c].method, args[c].path,
                                 headers[c].timestamp, args[c].json_data)

\* C9: a call makes at most one HTTP attempt, and what the caller gets is
\* the outcome of that attempt.
C9_SingleAttempt ==
    \A c \in Callers :
        /\ attempts[c] <= 1
        /\ Answered(c) => outcome[c] = HandleResponse(resp[c])

C9_Witness ==
    \E c \in Callers :
        /\ Answered(c)
        /\ resp[c].kind = "raise"
        /\ outcome[c].kind = "ArchetypeAPIError"

\* C10: in every request on the wire, under any interleaving of callers, the
\* X-Signature is the signature of that call's method, path and canonical
\* body with the X-Timestamp of the same request; the query parameters and
\* the other callers contribute nothing.
C10_WireSignatureMatchesOwnCall ==
    \A c \in Callers :
        Sent(c) =>
            wire[c].headers.signature =
                GenerateSignature(client, args[c].method, args[c].path,
                                  wire[c].headers.timestamp,
                                  CanonicalBody(args[c].json_data))

\* ------------------------------------------------ properties of the Signer
Components(s) == <<s.method, s.path, s.timestamp, s.body, s.self.api_secret>>

Differing(s, t) == {i \in 1 .. 5 : Components(s)[i] # Components(t)[i]}

\* The one differing component is one the signed message tells apart: two
\* methods that differ after uppercasing, two bodies that are not both
\* absent or empty, or any two paths, timestamps or secrets.
ToldApart(s, t) ==
    /\ s.method # t.method => Upper(s.method) # Upper(t.method)
    /\ s.body # t.body => StrTruthy(s.body) \/ StrTruthy(t.body)

====
